---- MODULE Spec2Model ----
(***************************************************************************)
(* A model of the decky-mirror plugin store (src/plugin_store): the two    *)
(* tables of models.py, the upstream snapshot cache and the reconciliation *)
(* pass of app.py, the catalog query, the counter increment, and the       *)
(* curation endpoints of admin.py.                                         *)
(*                                                                         *)
(* Optional values (Python None / SQL NULL) are sequences of length 0 or   *)
(* 1: None is <<>>, a value x is <<x>>.  An upstream JSON object is a      *)
(* record whose DOMAIN is the set of keys it carries, so dict.get(k, d) is *)
(* a test on the DOMAIN.  A table is the sequence of its rows, a row's id  *)
(* its index (INTEGER PRIMARY KEY: rows are never deleted).                *)
(***************************************************************************)
EXTENDS Integers, Sequences, FiniteSets, TLC

VARIABLES
    plugins,     \* table "plugins": committed rows, index = Plugin.id
    versions,    \* table "plugin_versions": committed rows, index = PluginVersion.id
    cacheFile,   \* /srv/plugins/plugins.json: None, or the document it holds
    lastOp,      \* the request handled last: its handler and its arguments
    resp,        \* the HTTP response to that request
    curated,     \* history: ids of plugins a set-visibility(true) was applied to
    nops,        \* number of requests handled so far
    sess,        \* per worker: the SQLAlchemy session of its request in progress
    lock,        \* SQLite's write lock: 0, or the worker whose transaction holds it
    adminToken   \* ADMIN_TOKEN of admin.py: the environment's value at import

vars ==
    <<plugins, versions, cacheFile, lastOp, resp, curated, nops, sess, lock,
      adminToken>>

\* ------------------------------------------------------------------ bounds

MaxOps == 3          \* requests handled in one behaviour of Spec
NumWorkers == 2      \* concurrent requests in SpecRace and SpecInc

\* ----------------------------------------------------------------- helpers

None == <<>>
Some(x) == <<x>>

Max(S) == CHOOSE x \in S : \A y \in S : y <= x
Min(S) == CHOOSE x \in S : \A y \in S : x <= y

\* dict.get(k): the value, or None when the key is absent
GetOpt(e, k) == IF k \in DOMAIN e THEN Some(e[k]) ELSE None
\* dict.get(k, d) where d is an optional value (a stored nullable column)
GetOr(e, k, d) == IF k \in DOMAIN e THEN Some(e[k]) ELSE d
\* dict.get(k, d) where d is a plain value (an integer counter, a list)
GetVal(e, k, d) == IF k \in DOMAIN e THEN e[k] ELSE d
\* dict.get(k) for a key whose JSON value may be null (a version's artifact):
\* the entries carry such a value as an optional one, null being None
GetNullable(e, k) == IF k \in DOMAIN e THEN e[k] ELSE None

\* json.dumps / json.loads of the tags column: the text is kept as a tagged
\* copy of the list it encodes
JsonDumps(x) == [json |-> x]
JsonLoads(t) == t.json

\* datetime.fromisoformat on the strings of the model: the one well-formed
\* timestamp parses (to the value named by its "+00:00" form), anything else
\* raises ValueError
ParseIso8601(s) ==
    IF s = None \/ s = Some("") THEN [ok |-> TRUE, val |-> None]
    ELSE IF s = Some("2025-10-15T22:29:47Z")
         THEN [ok |-> TRUE, val |-> Some("2025-10-15T22:29:47+00:00")]
         ELSE [ok |-> FALSE, val |-> None]

\* ------------------------------------------------- upstream snapshot inputs

VerA == [name |-> "1.0.0", hash |-> "abc"]
EntryFoo == [id |-> 7, name |-> "Foo", versions |-> <<VerA>>]

SnapshotNames ==
    {"example", "twice", "dupkey", "mixed", "update", "zero", "baddate",
     "negative"}

\* the snapshots that list no upstream id and no (name, hash) twice
NoRepeatSnapshots ==
    {"example", "mixed", "update", "zero", "baddate", "negative"}

Snapshot(n) ==
    CASE n = "example" -> <<EntryFoo>>
      [] n = "twice"   -> <<EntryFoo, EntryFoo>>
      [] n = "dupkey"  ->
            << [id |-> 7, name |-> "Foo", versions |->
                  << [name |-> "1.0.0", hash |-> "abc", downloads |-> 1,
                      artifact |-> Some("foo-1.0.0.zip")],
                     [name |-> "1.0.0", hash |-> "abc", updates |-> 2] >>] >>
      [] n = "mixed"   ->
            << [name |-> "Bar", created |-> "yesterday",
                versions |-> <<VerA>>],
               [id |-> 7, name |-> "Foo", author |-> "alice",
                description |-> "a plugin", tags |-> <<"tool">>,
                image_url |-> "foo.png", visible |-> TRUE,
                downloads |-> 2, updates |-> 1,
                created |-> "2025-10-15T22:29:47Z",
                updated |-> "2025-10-15T22:29:47Z",
                versions |-> << [name |-> "1.0.0", hash |-> "abc",
                                 downloads |-> 2,
                                 artifact |-> Some("foo-1.0.0.zip")] >>] >>
      [] n = "update"  ->
            << [id |-> 7, visible |-> FALSE, downloads |-> 0, updates |-> 0,
                versions |->
                  << [name |-> "1.0.0", hash |-> "abc", downloads |-> 0,
                      artifact |-> None] >>] >>
      [] n = "zero"    ->
            << [id |-> 0, name |-> "Bar", versions |->
                  << [name |-> "2.0.0", hash |-> "def"] >>] >>
      [] n = "baddate" ->
            << EntryFoo, [id |-> 8, name |-> "Bar", created |-> "yesterday"] >>
      [] n = "negative" ->
            << [id |-> 7, name |-> "Foo", downloads |-> -1,
                versions |-> << [name |-> "1.0.0", hash |-> "abc",
                                 updates |-> -2] >>] >>

\* ------------------------------------------------------------ the ORM rows

\* (mutant) the create path without its visible=False: the column default,
\* True, applies
NewPluginColumnDefault(e, created, updated) ==
    [upstream_id |-> Some(e.id),
     name        |-> GetOpt(e, "name"),
     author      |-> GetOpt(e, "author"),
     description |-> GetOpt(e, "description"),
     tags        |-> Some(JsonDumps(GetVal(e, "tags", <<>>))),
     visible     |-> TRUE,
     image_url   |-> GetOpt(e, "image_url"),
     downloads   |-> GetVal(e, "downloads", 0),
     updates     |-> GetVal(e, "updates", 0),
     created     |-> created,
     updated     |-> updated]

\* Plugin(...) of the create path of ensure_plugins_synced
NewPlugin(e, created, updated) ==
    [upstream_id |-> Some(e.id),
     name        |-> GetOpt(e, "name"),
     author      |-> GetOpt(e, "author"),
     description |-> GetOpt(e, "description"),
     tags        |-> Some(JsonDumps(GetVal(e, "tags", <<>>))),
     visible     |-> FALSE,
     image_url   |-> GetOpt(e, "image_url"),
     downloads   |-> GetVal(e, "downloads", 0),
     updates     |-> GetVal(e, "updates", 0),
     created     |-> created,
     updated     |-> updated]

\* (mutant) an update path that treats visible like the other attributes
UpdatePluginVisibleToo(p, e, created, updated) ==
    [p EXCEPT
       !.name        = GetOr(e, "name", @),
       !.author      = GetOr(e, "author", @),
       !.description = GetOr(e, "description", @),
       !.tags        = Some(JsonDumps(GetVal(e, "tags",
                          IF @ = None THEN <<>> ELSE JsonLoads(@[1])))),
       !.visible     = GetVal(e, "visible", @),
       !.image_url   = GetOr(e, "image_url", @),
       !.downloads   = GetVal(e, "downloads", @),
       !.updates     = GetVal(e, "updates", @),
       !.created     = IF created # None THEN created ELSE @,
       !.updated     = IF updated # None THEN updated ELSE @]

\* (mutant) an update path that never lowers a counter: it keeps the higher
\* of the stored and the upstream value
UpdatePluginKeepingHigher(p, e, created, updated) ==
    [p EXCEPT
       !.name        = GetOr(e, "name", @),
       !.author      = GetOr(e, "author", @),
       !.description = GetOr(e, "description", @),
       !.tags        = Some(JsonDumps(GetVal(e, "tags",
                          IF @ = None THEN <<>> ELSE JsonLoads(@[1])))),
       !.image_url   = GetOr(e, "image_url", @),
       !.downloads   = Max({@, GetVal(e, "downloads", @)}),
       !.updates     = Max({@, GetVal(e, "updates", @)}),
       !.created     = IF created # None THEN created ELSE @,
       !.updated     = IF updated # None THEN updated ELSE @]

\* the update path: every upstream-owned attribute is re-assigned from the
\* entry, falling back to its current value; visible is not assigned
UpdatePlugin(p, e, created, updated) ==
    [p EXCEPT
       !.name        = GetOr(e, "name", @),
       !.author      = GetOr(e, "author", @),
       !.description = GetOr(e, "description", @),
       !.tags        = Some(JsonDumps(GetVal(e, "tags",
                          IF @ = None THEN <<>> ELSE JsonLoads(@[1])))),
       !.image_url   = GetOr(e, "image_url", @),
       !.downloads   = GetVal(e, "downloads", @),
       !.updates     = GetVal(e, "updates", @),
       !.created     = IF created # None THEN created ELSE @,
       !.updated     = IF updated # None THEN updated ELSE @]

\* PluginVersion(...) of the insert branch of the version loop
NewVersion(pid, item, created) ==
    [plugin_id |-> pid,
     name      |-> GetOpt(item, "name"),
     hash      |-> GetOpt(item, "hash"),
     created   |-> created,
     downloads |-> GetVal(item, "downloads", 0),
     updates   |-> GetVal(item, "updates", 0),
     artifact  |-> GetNullable(item, "artifact")]

\* (mutant) an update branch that assigns artifact like the insert branch
UpdateVersionAssignsArtifact(v, item, created) ==
    [v EXCEPT
       !.created   = IF created # None THEN created ELSE @,
       !.downloads = GetVal(item, "downloads", @),
       !.updates   = GetVal(item, "updates", @),
       !.artifact  = GetNullable(item, "artifact")]

\* the update branch of the version loop
UpdateVersion(v, item, created) ==
    [v EXCEPT
       !.created   = IF created # None THEN created ELSE @,
       !.downloads = GetVal(item, "downloads", @),
       !.updates   = GetVal(item, "updates", @),
       !.artifact  = IF GetNullable(item, "artifact") # None
                     THEN GetNullable(item, "artifact") ELSE @]

\* ------------------------------------------------- the SQLAlchemy session

(* A session (SessionLocal: autocommit=False, autoflush=False) holds the     *)
(* identity map: each object loaded or created in it, as loaded (pl0, ver0)  *)
(* and as it is now (pl, ver), the versions collection each plugin object    *)
(* was loaded with (coll), and the PluginVersion objects added but not yet   *)
(* inserted (newV).  A plugin created in the session is inserted by the      *)
(* db.flush() that follows; its id is the next free one, which stays so      *)
(* because the INSERT takes the write lock until the commit.                 *)
NewSession ==
    [pl |-> <<>>, pl0 |-> <<>>, coll |-> <<>>, ver |-> <<>>, ver0 |-> <<>>,
     newV |-> <<>>, found |-> 0, err |-> FALSE]

\* the plugin rows a query of this session sees: the committed ones and the
\* ones its own transaction inserted
NumRows(db, s) ==
    Len(db.plugins) + Cardinality({i \in DOMAIN s.pl : i > Len(db.plugins)})
RowAt(db, s, i) == IF i <= Len(db.plugins) THEN db.plugins[i] ELSE s.pl[i]

\* (mutant) the query without the db.flush() before it: the rows this
\* session created are not seen
QueryByUpstreamIdUnflushed(db, s, uid) ==
    LET m == {i \in 1..Len(db.plugins) : db.plugins[i].upstream_id = Some(uid)}
    IN  IF m = {} THEN 0 ELSE Min(m)

\* db.query(Plugin).filter(Plugin.upstream_id == upstream_id).first():
\* the id of the first matching row, 0 for None
QueryByUpstreamId(db, s, uid) ==
    LET m == {i \in 1..NumRows(db, s) : RowAt(db, s, i).upstream_id = Some(uid)}
    IN  IF m = {} THEN 0 ELSE Min(m)

\* ids of the rows of plugin_versions that belong to plugin pid, in id order
VersionIdsOf(db, pid) ==
    SelectSeq([i \in 1..Len(db.versions) |-> i],
              LAMBDA i : db.versions[i].plugin_id = pid)

\* a Plugin row enters the identity map, with its versions (lazy="joined");
\* an object already in the map is returned as it is, not refreshed
LoadPlugin(db, s, pid) ==
    IF pid \in DOMAIN s.pl THEN s
    ELSE LET vids == VersionIdsOf(db, pid)
             vs   == [v \in {vids[i] : i \in 1..Len(vids)} |-> db.versions[v]]
         IN  [s EXCEPT !.pl   = (pid :> db.plugins[pid]) @@ @,
                       !.pl0  = (pid :> db.plugins[pid]) @@ @,
                       !.coll = (pid :> vids) @@ @,
                       !.ver  = vs @@ @,
                       !.ver0 = vs @@ @]

\* (mutant) a version loop that finds no key in existing_versions
ExistingVersionNever(s, pid, vname, vhash) == 0

\* existing_versions.get(key): the dict comprehension over plugin.versions
\* keeps, for each (name, hash), the last object of the collection; 0 when
\* the key is not in the dict
ExistingVersion(s, pid, vname, vhash) ==
    LET c == s.coll[pid]
        m == {i \in 1..Len(c) :
                s.ver[c[i]].name = vname /\ s.ver[c[i]].hash = vhash}
    IN  IF m = {} THEN 0 ELSE c[Max(m)]

\* NOT NULL columns: Plugin.name, PluginVersion.name, PluginVersion.hash
IntegrityOk(s) ==
    /\ \A i \in DOMAIN s.pl : s.pl[i].name # None
    /\ \A j \in 1..Len(s.newV) : s.newV[j].name # None /\ s.newV[j].hash # None

\* db.flush(): the pending rows are written; a NULL in a NOT NULL column
\* raises IntegrityError
Flush(s) == IF IntegrityOk(s) THEN s ELSE [s EXCEPT !.err = TRUE]

\* the UPDATE a flush emits for a loaded row: only the attributes whose value
\* differs from the loaded one
MergeRow(row, loaded, cur) ==
    [f \in DOMAIN row |-> IF cur[f] # loaded[f] THEN cur[f] ELSE row[f]]

\* db.commit(): flush, then the transaction becomes the committed store
Commit(db, s) ==
    LET n  == Len(db.plugins)
        np == NumRows(db, s)
    IN  [plugins  |-> [i \in 1..np |->
                         IF i > n THEN s.pl[i]
                         ELSE IF i \in DOMAIN s.pl
                              THEN MergeRow(db.plugins[i], s.pl0[i], s.pl[i])
                              ELSE db.plugins[i]],
         versions |-> [i \in 1..Len(db.versions) |->
                         IF i \in DOMAIN s.ver
                         THEN MergeRow(db.versions[i], s.ver0[i], s.ver[i])
                         ELSE db.versions[i]] \o s.newV]

\* ------------------------------------------- ensure_plugins_synced, by step

\* the version loop of one entry, for the plugin object pid
RECURSIVE SyncVersions(_, _, _)
SyncVersions(s, pid, items) ==
    IF items = <<>> \/ s.err THEN s
    ELSE LET item    == Head(items)
             vname   == GetOpt(item, "name")
             vhash   == GetOpt(item, "hash")
             vid     == ExistingVersion(s, pid, vname, vhash)
             created == ParseIso8601(GetOpt(item, "created"))
             s2 == IF ~created.ok THEN [s EXCEPT !.err = TRUE]
                   ELSE IF vid = 0
                   THEN [s EXCEPT !.newV =
                            Append(@, NewVersion(pid, item, created.val))]
                   ELSE [s EXCEPT !.ver[vid] =
                            UpdateVersion(@, item, created.val)]
         IN  SyncVersions(s2, pid, Tail(items))

\* (mutant) a lookup that falls back to the plugin of the entry's name
SyncLookupByName(db, s, e) ==
    IF "id" \notin DOMAIN e \/ s.err THEN [s EXCEPT !.found = 0]
    ELSE LET pid == QueryByUpstreamId(db, s, e.id)
             m   == {i \in 1..Len(db.plugins) :
                       db.plugins[i].name = GetOpt(e, "name")}
         IN  IF pid # 0 THEN [LoadPlugin(db, s, pid) EXCEPT !.found = pid]
             ELSE IF m = {} THEN [s EXCEPT !.found = 0]
             ELSE [LoadPlugin(db, s, Min(m)) EXCEPT !.found = Min(m)]

\* the lookup of one entry: upstream_id, then the query by upstream id
SyncLookup(db, s, e) ==
    IF "id" \notin DOMAIN e \/ s.err THEN [s EXCEPT !.found = 0]
    ELSE LET pid == QueryByUpstreamId(db, s, e.id)
         IN  IF pid = 0 THEN [s EXCEPT !.found = 0]
             ELSE [LoadPlugin(db, s, pid) EXCEPT !.found = pid]

\* (mutant) a loop body that takes an entry without id for an error
SyncApplyRejectingNoId(db, s, e) ==
    IF s.err THEN s
    ELSE IF "id" \notin DOMAIN e THEN [s EXCEPT !.err = TRUE]
    ELSE LET created == ParseIso8601(GetOpt(e, "created"))
             updated == ParseIso8601(GetOpt(e, "updated"))
             pid     == IF s.found = 0 THEN NumRows(db, s) + 1 ELSE s.found
             s2 == IF ~created.ok \/ ~updated.ok THEN [s EXCEPT !.err = TRUE]
                   ELSE IF s.found = 0
                   THEN LET p == NewPlugin(e, created.val, updated.val)
                        IN  Flush([s EXCEPT !.pl   = (pid :> p) @@ @,
                                            !.pl0  = (pid :> p) @@ @,
                                            !.coll = (pid :> <<>>) @@ @])
                   ELSE [s EXCEPT !.pl[pid] =
                            UpdatePlugin(@, e, created.val, updated.val)]
         IN  SyncVersions(s2, pid, GetVal(e, "versions", <<>>))

\* the rest of the loop body for one entry: create and flush, or update;
\* then the version loop
SyncApply(db, s, e) ==
    IF "id" \notin DOMAIN e \/ s.err THEN s
    ELSE LET created == ParseIso8601(GetOpt(e, "created"))
             updated == ParseIso8601(GetOpt(e, "updated"))
             pid     == IF s.found = 0 THEN NumRows(db, s) + 1 ELSE s.found
             s2 == IF ~created.ok \/ ~updated.ok THEN [s EXCEPT !.err = TRUE]
                   ELSE IF s.found = 0
                   THEN LET p == NewPlugin(e, created.val, updated.val)
                        IN  Flush([s EXCEPT !.pl   = (pid :> p) @@ @,
                                            !.pl0  = (pid :> p) @@ @,
                                            !.coll = (pid :> <<>>) @@ @])
                   ELSE [s EXCEPT !.pl[pid] =
                            UpdatePlugin(@, e, created.val, updated.val)]
         IN  SyncVersions(s2, pid, GetVal(e, "versions", <<>>))

RECURSIVE SyncEntries(_, _, _)
SyncEntries(db, s, entries) ==
    IF entries = <<>> THEN s
    ELSE SyncEntries(db, SyncApply(db, SyncLookup(db, s, Head(entries)),
                                   Head(entries)),
                     Tail(entries))

\* a whole pass run by itself: ok is FALSE when it raised (nothing committed)
RunPass(db, snap) ==
    LET s == Flush(SyncEntries(db, NewSession, snap))
    IN  IF s.err THEN [ok |-> FALSE, db |-> db]
        ELSE [ok |-> TRUE, db |-> Commit(db, s)]

EmptyDb == [plugins |-> <<>>, versions |-> <<>>]

\* ------------------------------------------------------- the catalog query

\* the characters of the strings of the model, lower-cased (ILIKE compares
\* without case)
LowerChars(str) ==
    CASE str = "Foo"      -> <<"f", "o", "o">>
      [] str = "Bar"      -> <<"b", "a", "r">>
      [] str = "Baz"      -> <<"b", "a", "z">>
      [] str = "fo"       -> <<"f", "o">>
      [] str = "PLUG"     -> <<"p", "l", "u", "g">>
      [] str = "a plugin" -> <<"a", " ", "p", "l", "u", "g", "i", "n">>
      [] str = "local"    -> <<"l", "o", "c", "a", "l">>
      [] OTHER            -> <<>>

Contains(text, pat) ==
    \E i \in 0..(Len(text) - Len(pat)) :
        \A j \in 1..Len(pat) : text[i + j] = pat[j]

\* column.ilike("%query%"); NULL ILIKE anything is not true
ILike(col, query) ==
    col # None /\ Contains(LowerChars(col[1]), LowerChars(query))

Queries == {None, Some("fo"), Some("PLUG")}

\* q.all() of get_plugins: the ids of the rows with visible set that match
\* the search term, in id order
VisibleMatching(db, query) ==
    SelectSeq([i \in 1..Len(db.plugins) |-> i],
              LAMBDA i : /\ db.plugins[i].visible
                         /\ query # None =>
                              \/ ILike(db.plugins[i].name, query[1])
                              \/ ILike(db.plugins[i].description, query[1]))

\* plugin_to_dict, without its timestamps
PluginToDict(db, pid) ==
    LET p    == db.plugins[pid]
        vids == VersionIdsOf(db, pid)
    IN  [id |-> IF p.upstream_id # None /\ p.upstream_id[1] # 0
                THEN p.upstream_id[1] ELSE pid,
         name        |-> p.name,
         author      |-> p.author,
         description |-> p.description,
         tags        |-> IF p.tags # None THEN JsonLoads(p.tags[1]) ELSE <<>>,
         versions    |-> [i \in 1..Len(vids) |->
                            [name      |-> db.versions[vids[i]].name,
                             hash      |-> db.versions[vids[i]].hash,
                             downloads |-> db.versions[vids[i]].downloads,
                             updates   |-> db.versions[vids[i]].updates]],
         visible     |-> p.visible,
         image_url   |-> p.image_url,
         downloads   |-> p.downloads,
         updates     |-> p.updates]

\* ------------------------------------------------------------ the requests

Workers == 1..NumWorkers
Idle == [pc |-> "idle"]
Db == [plugins |-> plugins, versions |-> versions]

\* an HTTP response: its status, the kind of its JSON body, the projections
\* of a plugin list, and (for the properties) the ids of the rows projected
Response(status, kind) ==
    [status |-> status, kind |-> kind, items |-> <<>>, rows |-> <<>>]
\* an exception that no handler catches
ServerError == Response(500, "exception")

Init ==
    /\ plugins = <<>>
    /\ versions = <<>>
    /\ cacheFile = None
    /\ lastOp = [kind |-> "none"]
    /\ resp = Response(0, "none")
    /\ curated = {}
    /\ nops = 0
    /\ sess = [w \in Workers |-> Idle]
    /\ lock = 0
    /\ adminToken = Some("s3cret")     \* a deployment with its secret set

\* (mutant) a loader that fetches and rewrites the file on every call
LoadPluginsRefetching(file, remote) ==
    IF remote = None THEN [ok |-> FALSE, fetch |-> "failed", file |-> file]
    ELSE [ok |-> TRUE, fetch |-> "ok", file |-> remote]

\* (mutant) a loader that creates the file before it has the document: a
\* failed fetch leaves a file behind
LoadPluginsWritingFirst(file, remote) ==
    IF file = None
    THEN IF remote = None
         THEN [ok |-> FALSE, fetch |-> "failed", file |-> Some("example")]
         ELSE [ok |-> TRUE, fetch |-> "ok", file |-> remote]
    ELSE [ok |-> TRUE, fetch |-> "none", file |-> file]

\* load_plugins_from_source: file is the cache file, remote what a request to
\* the remote source would get now (None: requests.get or raise_for_status
\* raises).  The result: whether the call returned, what became of the fetch
\* ("none": the remote was not contacted), and the cache file afterwards;
\* the document returned is the one the file holds.
LoadPluginsFromSource(file, remote) ==
    IF file = None
    THEN IF remote = None
         THEN [ok |-> FALSE, fetch |-> "failed", file |-> None]
         ELSE [ok |-> TRUE, fetch |-> "ok", file |-> remote]
    ELSE [ok |-> TRUE, fetch |-> "none", file |-> file]

\* q.all() and the projections of get_plugins, as a response
ListResponse(db, q) ==
    LET rows == VisibleMatching(db, q)
    IN  [status |-> 200, kind |-> "list",
         items |-> [i \in 1..Len(rows) |-> PluginToDict(db, rows[i])],
         rows |-> rows]

\* (mutant) a handler that answers from the store as it was before the pass
\* and swallows a failure of the pass
GetPluginsStale(db, ld, q) ==
    LET pass == IF ld.ok THEN RunPass(db, Snapshot(ld.file[1]))
                ELSE [ok |-> FALSE, db |-> db]
    IN  [db |-> pass.db, resp |-> ListResponse(db, q)]

\* the body of get_plugins once load_plugins_from_source has returned or
\* raised (ld): the rest of the reconciliation pass, then the query; the
\* store afterwards and the response
GetPluginsBody(db, ld, q) ==
    LET pass == IF ld.ok THEN RunPass(db, Snapshot(ld.file[1]))
                ELSE [ok |-> FALSE, db |-> db]
    IN  [db |-> pass.db,
         resp |-> IF pass.ok THEN ListResponse(pass.db, q) ELSE ServerError]

\* GET /plugins: load_plugins_from_source (remote is what the remote source
\* would serve now), the reconciliation pass, then the query of the visible
\* plugins
GetPlugins(remote, q) ==
    /\ nops < MaxOps
    /\ LET ld  == LoadPluginsFromSource(cacheFile, remote)
           out == GetPluginsBody(Db, ld, q)
       IN  /\ cacheFile' = ld.file
           /\ plugins' = out.db.plugins
           /\ versions' = out.db.versions
           /\ resp' = out.resp
           /\ lastOp' = [kind |-> "get",
                         snap |-> IF ld.ok THEN ld.file[1] ELSE "",
                         query |-> q, remote |-> remote,
                         fetch |-> ld.fetch]
    /\ nops' = nops + 1
    /\ UNCHANGED <<curated, sess, lock, adminToken>>

\* GET /plugins while no cache file exists and the fetch raises
GetPluginsFetchFails(q) ==
    /\ cacheFile = None
    /\ GetPlugins(None, q)

\* GET /plugins while the remote serves document n; while a cache file
\* exists the remote is not read, and n is taken to be what the file holds
GetPluginsServed(n, q) ==
    /\ cacheFile # None => cacheFile = Some(n)
    /\ GetPlugins(Some(n), q)

\* the cache file is removed from outside the program (the only way a later
\* pass sees another snapshot)
CacheFileRemoved ==
    /\ cacheFile # None
    /\ cacheFile' = None
    /\ lastOp' = [kind |-> "rm_cache"]
    /\ UNCHANGED <<plugins, versions, resp, curated, nops, sess, lock, adminToken>>

\* ------------------------------------------------- the counter increment

\* (mutant) a resolution by name that takes the last matching row
QueryPluginByNameLast(db, pname) ==
    LET m == {i \in 1..Len(db.plugins) : db.plugins[i].name = Some(pname)}
    IN  IF m = {} THEN 0 ELSE Max(m)

\* db.query(Plugin).filter(Plugin.name == plugin_name).first(): 0 for None
QueryPluginByName(db, pname) ==
    LET m == {i \in 1..Len(db.plugins) : db.plugins[i].name = Some(pname)}
    IN  IF m = {} THEN 0 ELSE Min(m)

\* db.query(PluginVersion).filter(plugin_id == plugin.id, name == version_name)
\* .first(): 0 for None
QueryVersionByName(db, pid, vname) ==
    LET m == {i \in 1..Len(db.versions) :
                /\ db.versions[i].plugin_id = pid
                /\ db.versions[i].name = Some(vname)}
    IN  IF m = {} THEN 0 ELSE Min(m)

\* (mutant) an increment that forgets the plugin-level counter
IncBumpVersionOnly(s, pid, vid, isUpdate) ==
    IF isUpdate
    THEN [s EXCEPT !.ver[vid].updates = @ + 1]
    ELSE [s EXCEPT !.ver[vid].downloads = @ + 1]

\* the "+= 1" pair on the loaded version and plugin objects
IncBump(s, pid, vid, isUpdate) ==
    IF isUpdate
    THEN [s EXCEPT !.ver[vid].updates = @ + 1, !.pl[pid].updates = @ + 1]
    ELSE [s EXCEPT !.ver[vid].downloads = @ + 1, !.pl[pid].downloads = @ + 1]

\* what the client gets for a value the handler returns: FastAPI encodes it
\* as JSON under the route's status code, 200; a returned tuple becomes a
\* JSON array
PluginNotFound == Response(200, "error_object")      \* {"error": ...}
VersionNotFound == Response(200, "array")           \* [{"error": ...}, 404]
IncDone == Response(200, "empty_object")            \* {}

PluginNames == {"Foo", "Bar"}
VersionNames == {"1.0.0", "2.0.0"}

\* POST /plugins/{plugin_name}/versions/{version_name}/increment
Increment(pname, vname, isUpdate) ==
    /\ nops < MaxOps
    /\ LET pid == QueryPluginByName(Db, pname)
           vid == IF pid = 0 THEN 0 ELSE QueryVersionByName(Db, pid, vname)
           new == Commit(Db, IncBump(LoadPlugin(Db, NewSession, pid),
                                     pid, vid, isUpdate))
       IN  /\ plugins' = IF vid = 0 THEN plugins ELSE new.plugins
           /\ versions' = IF vid = 0 THEN versions ELSE new.versions
           /\ resp' = IF pid = 0 THEN PluginNotFound
                      ELSE IF vid = 0 THEN VersionNotFound ELSE IncDone
           /\ lastOp' = [kind |-> "inc", plugin |-> pname, version |-> vname,
                         isUpdate |-> isUpdate]
    /\ nops' = nops + 1
    /\ UNCHANGED <<cacheFile, curated, sess, lock, adminToken>>

\* -------------------------------------------------------- the Curation API
\* (requests that pass verify_admin_token)

NotFound == Response(404, "error_object")           \* HTTPException(404)

\* POST /internal/plugins
AdminCreatePlugin(pname) ==
    /\ nops < MaxOps
    /\ plugins' = Append(plugins,
         [upstream_id |-> None,
          name        |-> Some(pname),
          author      |-> Some("curator"),
          description |-> Some("local"),
          tags        |-> Some(JsonDumps(<<>>)),
          visible     |-> FALSE,
          image_url   |-> None,
          downloads   |-> 0,
          updates     |-> 0,
          created     |-> Some("utcnow"),
          updated     |-> Some("utcnow")])
    /\ resp' = Response(200, "object")
    /\ lastOp' = [kind |-> "create", plugin |-> pname]
    /\ nops' = nops + 1
    /\ UNCHANGED <<versions, cacheFile, curated, sess, lock, adminToken>>

\* POST /internal/plugins/{plugin_id}/versions
AdminPublishVersion(pid, vname, vhash) ==
    /\ nops < MaxOps
    /\ IF pid \in 1..Len(plugins)
       THEN /\ versions' = Append(versions,
                 [plugin_id |-> pid,
                  name      |-> Some(vname),
                  hash      |-> Some(vhash),
                  created   |-> Some("utcnow"),
                  downloads |-> 0,
                  updates   |-> 0,
                  artifact  |-> None])
            /\ resp' = Response(200, "object")
       ELSE /\ versions' = versions
            /\ resp' = NotFound
    /\ lastOp' = [kind |-> "publish", pid |-> pid, version |-> vname,
                  hash |-> vhash]
    /\ nops' = nops + 1
    /\ UNCHANGED <<plugins, cacheFile, curated, sess, lock, adminToken>>

\* PATCH /internal/plugins/{plugin_id}/visibility
AdminSetVisibility(pid, v) ==
    /\ nops < MaxOps
    /\ IF pid \in 1..Len(plugins)
       THEN /\ plugins' = [plugins EXCEPT ![pid].visible = v]
            /\ curated' = IF v THEN curated \cup {pid} ELSE curated
            /\ resp' = Response(200, "object")
       ELSE /\ UNCHANGED <<plugins, curated>>
            /\ resp' = NotFound
    /\ lastOp' = [kind |-> "visibility", pid |-> pid, visible |-> v]
    /\ nops' = nops + 1
    /\ UNCHANGED <<versions, cacheFile, sess, lock, adminToken>>

PublishedVersions == {<<"1.0.0", "abc">>, <<"2.0.0", "def">>}

Next ==
    \/ \E q \in Queries : GetPluginsFetchFails(q)
    \/ \E n \in SnapshotNames, q \in Queries : GetPluginsServed(n, q)
    \/ CacheFileRemoved
    \/ \E pn \in PluginNames, vn \in VersionNames, u \in BOOLEAN :
          Increment(pn, vn, u)
    \/ \E pn \in {"Foo", "Baz"} : AdminCreatePlugin(pn)
    \/ \E pid \in 1..(Len(plugins) + 1), v \in PublishedVersions :
          AdminPublishVersion(pid, v[1], v[2])
    \/ \E pid \in 1..(Len(plugins) + 1), v \in BOOLEAN :
          AdminSetVisibility(pid, v)

Spec == Init /\ [][Next]_vars

\* ------------------------------------------ the Curation API's token check

\* the names bound in the module admin.py when verify_admin_token runs: its
\* imports and its definitions
AdminGlobals ==
    {"os", "json", "datetime", "APIRouter", "Depends", "HTTPException",
     "Header", "Session", "Plugin", "PluginVersion", "get_db", "BaseModel",
     "List", "Optional", "ADMIN_TOKEN", "PluginDetail", "PluginCreate",
     "PluginVisibilityUpdate", "PluginVersionCreate", "PluginVersionDetail",
     "verify_admin_token", "internal_router", "admin_create_plugin",
     "admin_publish_plugin_version", "admin_list_plugin_versions",
     "admin_update_plugin_visibility", "admin_list_plugins"}

\* raise HTTPException(status_code=status.HTTP_..., ...): the argument is
\* evaluated first, and the name status resolves in the module's globals or
\* raises NameError, which no handler catches
RaiseWithStatus(code) ==
    IF "status" \in AdminGlobals THEN Response(code, "error_object")
    ELSE ServerError

\* Python truth of an optional string: None and "" are false
Truthy(t) == t # None /\ t # Some("")

\* verify_admin_token: secret is ADMIN_TOKEN, token the X-Plugin-Store-Token
\* header (None: absent); ok when the dependency returns and the handler runs
VerifyAdminToken(secret, token) ==
    IF ~Truthy(secret)
    THEN [ok |-> FALSE, resp |-> RaiseWithStatus(503)]
    ELSE IF ~Truthy(token) \/ token # secret
         THEN [ok |-> FALSE, resp |-> RaiseWithStatus(401)]
         ELSE [ok |-> TRUE, resp |-> Response(0, "none")]

\* the values PLUGIN_STORE_ADMIN_TOKEN may have (None: not set), the values
\* of the header, and the routes of internal_router
AdminTokens == {None, Some(""), Some("s3cret")}
HeaderTokens == {None, Some(""), Some("guess"), Some("s3cret")}
AdminRoutes == {"create", "publish", "versions", "visibility", "list"}

InitAuth ==
    /\ plugins = <<>>
    /\ versions = <<>>
    /\ cacheFile = None
    /\ lastOp = [kind |-> "none"]
    /\ resp = Response(0, "none")
    /\ curated = {}
    /\ nops = 0
    /\ sess = [w \in Workers |-> Idle]
    /\ lock = 0
    /\ adminToken \in AdminTokens

\* a request to a route of internal_router that verify_admin_token ends
AdminRejected(route, token) ==
    /\ nops < MaxOps
    /\ ~VerifyAdminToken(adminToken, token).ok
    /\ resp' = VerifyAdminToken(adminToken, token).resp
    /\ lastOp' = [kind |-> "rejected", route |-> route, token |-> token]
    /\ nops' = nops + 1
    /\ UNCHANGED <<plugins, versions, cacheFile, curated, sess, lock, adminToken>>

\* requests to the Curation API with any header, on a server with any
\* configuration
NextAuth ==
    \/ \E r \in AdminRoutes, t \in HeaderTokens : AdminRejected(r, t)
    \/ \E t \in HeaderTokens, pn \in {"Foo", "Baz"} :
          VerifyAdminToken(adminToken, t).ok /\ AdminCreatePlugin(pn)
    \/ \E t \in HeaderTokens, pid \in 1..(Len(plugins) + 1),
          v \in PublishedVersions :
          VerifyAdminToken(adminToken, t).ok
              /\ AdminPublishVersion(pid, v[1], v[2])
    \/ \E t \in HeaderTokens, pid \in 1..(Len(plugins) + 1), v \in BOOLEAN :
          VerifyAdminToken(adminToken, t).ok /\ AdminSetVisibility(pid, v)

SpecAuth == InitAuth /\ [][NextAuth]_vars

\* ------------------------------------- requests while the remote changes

\* the documents the remote source serves over time
CacheDocs == {"example", "update", "zero"}

\* GET /plugins requests, each finding the remote down or serving any of the
\* documents whatever the cache file holds, with the curator and the removal
\* of the cache file in between
NextCache ==
    \/ \E n \in CacheDocs, q \in {None, Some("fo")} : GetPlugins(Some(n), q)
    \/ \E q \in {None, Some("fo")} : GetPlugins(None, q)
    \/ CacheFileRemoved
    \/ \E pid \in 1..(Len(plugins) + 1), v \in BOOLEAN :
          AdminSetVisibility(pid, v)

SpecCache == Init /\ [][NextCache]_vars

\* --------------------------------------- concurrent requests, step by step

(* Each worker handles one request in a session of its own (get_db).  SQLite *)
(* lets any session read the committed rows at any time; the first INSERT   *)
(* or UPDATE of a transaction takes the database's write lock, held until   *)
(* the commit or the rollback.  A write that finds the lock taken waits     *)
(* (the busy timeout) and then either goes on, once the lock is free, or    *)
(* raises "database is locked".                                             *)

LockFreeFor(w) == lock = 0 \/ lock = w

\* the session has something to write at its commit
HasWrites(db, s) ==
    \/ NumRows(db, s) > Len(db.plugins)
    \/ s.newV # <<>>
    \/ \E i \in DOMAIN s.pl : i <= Len(db.plugins) /\ s.pl[i] # s.pl0[i]
    \/ \E i \in DOMAIN s.ver : s.ver[i] # s.ver0[i]

\* GET /plugins starts: load_plugins_from_source (n is fetched and cached
\* when no cache file exists), then the loop over the entries begins
RaceBegin(w, n) ==
    /\ sess[w].pc = "idle"
    /\ cacheFile # None => cacheFile = Some(n)
    /\ cacheFile' = Some(n)
    /\ sess' = [sess EXCEPT ![w] =
          [pc |-> IF Snapshot(n) = <<>> THEN "commit" ELSE "lookup",
           snap |-> n, i |-> 1, s |-> NewSession]]
    /\ UNCHANGED <<plugins, versions, lastOp, resp, curated, nops, lock, adminToken>>

\* the query for the plugin of entry i
RaceLookup(w) ==
    /\ sess[w].pc = "lookup"
    /\ sess' = [sess EXCEPT ![w].pc = "apply",
                            ![w].s = SyncLookup(Db, @, Snapshot(sess[w].snap)[sess[w].i])]
    /\ UNCHANGED <<plugins, versions, cacheFile, lastOp, resp, curated, nops, lock, adminToken>>

\* entry i of worker w inserts a plugin row (create path, db.flush())
RaceInserts(w) ==
    LET e == Snapshot(sess[w].snap)[sess[w].i]
    IN  "id" \in DOMAIN e /\ sess[w].s.found = 0

\* (mutant) a pass that commits entry by entry: when entry i raises, what
\* the entries before it wrote is committed
RaceApplyCommittingEach(w) ==
    /\ sess[w].pc = "apply"
    /\ RaceInserts(w) => LockFreeFor(w)
    /\ LET n  == Len(Snapshot(sess[w].snap))
           s2 == SyncApply(Db, sess[w].s, Snapshot(sess[w].snap)[sess[w].i])
       IN  /\ sess' = [sess EXCEPT
                 ![w].s  = s2,
                 ![w].i  = @ + 1,
                 ![w].pc = IF s2.err THEN "failed"
                           ELSE IF sess[w].i < n THEN "lookup" ELSE "commit"]
           /\ lock' = IF s2.err THEN (IF lock = w THEN 0 ELSE lock)
                      ELSE IF RaceInserts(w) THEN w ELSE lock
           /\ plugins' = IF s2.err /\ IntegrityOk(sess[w].s)
                         THEN Commit(Db, sess[w].s).plugins ELSE plugins
           /\ versions' = IF s2.err /\ IntegrityOk(sess[w].s)
                          THEN Commit(Db, sess[w].s).versions ELSE versions
    /\ UNCHANGED <<cacheFile, lastOp, resp, curated, nops, adminToken>>

\* the create-or-update of entry i and its version loop
RaceApply(w) ==
    /\ sess[w].pc = "apply"
    /\ RaceInserts(w) => LockFreeFor(w)
    /\ LET n  == Len(Snapshot(sess[w].snap))
           s2 == SyncApply(Db, sess[w].s, Snapshot(sess[w].snap)[sess[w].i])
       IN  /\ sess' = [sess EXCEPT
                 ![w].s  = s2,
                 ![w].i  = @ + 1,
                 ![w].pc = IF s2.err THEN "failed"
                           ELSE IF sess[w].i < n THEN "lookup" ELSE "commit"]
           /\ lock' = IF s2.err THEN (IF lock = w THEN 0 ELSE lock)
                      ELSE IF RaceInserts(w) THEN w ELSE lock
    /\ UNCHANGED <<plugins, versions, cacheFile, lastOp, resp, curated, nops, adminToken>>

\* db.commit() of the pass
RaceCommit(w) ==
    /\ sess[w].pc = "commit"
    /\ HasWrites(Db, sess[w].s) => LockFreeFor(w)
    /\ LET s2 == Flush(sess[w].s)
       IN  /\ plugins' = IF s2.err THEN plugins ELSE Commit(Db, s2).plugins
           /\ versions' = IF s2.err THEN versions ELSE Commit(Db, s2).versions
           /\ sess' = [sess EXCEPT ![w].pc = IF s2.err THEN "failed" ELSE "done"]
    /\ lock' = IF lock = w THEN 0 ELSE lock
    /\ UNCHANGED <<cacheFile, lastOp, resp, curated, nops, adminToken>>

\* a write of worker w finds the lock held by another transaction until the
\* busy timeout runs out: OperationalError, the request fails
RaceBusy(w) ==
    /\ \/ sess[w].pc = "apply" /\ RaceInserts(w)
       \/ sess[w].pc = "commit" /\ HasWrites(Db, sess[w].s)
    /\ ~LockFreeFor(w)
    /\ sess' = [sess EXCEPT ![w].pc = "failed"]
    /\ UNCHANGED <<plugins, versions, cacheFile, lastOp, resp, curated, nops, lock, adminToken>>

NextRace ==
    \E w \in Workers :
        \/ \E n \in NoRepeatSnapshots : RaceBegin(w, n)
        \/ RaceLookup(w)
        \/ RaceApply(w)
        \/ RaceCommit(w)
        \/ RaceBusy(w)

\* two or more GET /plugins requests on a fresh deployment
SpecRace == Init /\ [][NextRace]_vars

\* a PluginVersion row enters the identity map unless it is there already
LoadVersion(db, s, vid) ==
    IF vid \in DOMAIN s.ver THEN s
    ELSE [s EXCEPT !.ver = (vid :> db.versions[vid]) @@ @,
                   !.ver0 = (vid :> db.versions[vid]) @@ @]

\* the store once the example snapshot has been reconciled
ExampleDb == RunPass(EmptyDb, Snapshot("example")).db

InitInc ==
    /\ plugins = ExampleDb.plugins
    /\ versions = ExampleDb.versions
    /\ cacheFile = Some("example")
    /\ lastOp = [kind |-> "get", snap |-> "example", query |-> None,
                 remote |-> Some("example"), fetch |-> "ok"]
    /\ resp = [status |-> 200, kind |-> "list", items |-> <<>>, rows |-> <<>>]
    /\ curated = {}
    /\ nops = 1
    /\ sess = [w \in Workers |-> Idle]
    /\ lock = 0
    /\ adminToken = Some("s3cret")

\* an increment request arrives
IncBegin(w, pname, vname, isUpdate) ==
    /\ sess[w].pc = "idle"
    /\ sess' = [sess EXCEPT ![w] =
          [pc |-> "find_plugin", plugin |-> pname, version |-> vname,
           isUpdate |-> isUpdate, pid |-> 0, vid |-> 0, s |-> NewSession,
           resp |-> Response(0, "none")]]
    /\ UNCHANGED <<plugins, versions, cacheFile, lastOp, resp, curated, nops, lock, adminToken>>

\* the query for the plugin by name
IncFindPlugin(w) ==
    /\ sess[w].pc = "find_plugin"
    /\ LET pid == QueryPluginByName(Db, sess[w].plugin)
       IN  sess' = [sess EXCEPT
              ![w].pid  = pid,
              ![w].s    = IF pid = 0 THEN @ ELSE LoadPlugin(Db, @, pid),
              ![w].pc   = IF pid = 0 THEN "done" ELSE "find_version",
              ![w].resp = IF pid = 0 THEN PluginNotFound ELSE @]
    /\ UNCHANGED <<plugins, versions, cacheFile, lastOp, resp, curated, nops, lock, adminToken>>

\* the query for the version by plugin id and name
IncFindVersion(w) ==
    /\ sess[w].pc = "find_version"
    /\ LET vid == QueryVersionByName(Db, sess[w].pid, sess[w].version)
       IN  sess' = [sess EXCEPT
              ![w].vid  = vid,
              ![w].s    = IF vid = 0 THEN @ ELSE LoadVersion(Db, @, vid),
              ![w].pc   = IF vid = 0 THEN "done" ELSE "add",
              ![w].resp = IF vid = 0 THEN VersionNotFound ELSE @]
    /\ UNCHANGED <<plugins, versions, cacheFile, lastOp, resp, curated, nops, lock, adminToken>>

\* the two "+= 1" on the objects of the session
IncAdd(w) ==
    /\ sess[w].pc = "add"
    /\ sess' = [sess EXCEPT
          ![w].s  = IncBump(@, sess[w].pid, sess[w].vid, sess[w].isUpdate),
          ![w].pc = "commit"]
    /\ UNCHANGED <<plugins, versions, cacheFile, lastOp, resp, curated, nops, lock, adminToken>>

\* db.commit(): the two UPDATEs and the COMMIT, under the write lock
IncCommit(w) ==
    /\ sess[w].pc = "commit"
    /\ lock = 0
    /\ plugins' = Commit(Db, sess[w].s).plugins
    /\ versions' = Commit(Db, sess[w].s).versions
    /\ sess' = [sess EXCEPT ![w].pc = "done", ![w].resp = IncDone]
    /\ UNCHANGED <<cacheFile, lastOp, resp, curated, nops, lock, adminToken>>

NextInc ==
    \E w \in Workers :
        \/ \E pn \in PluginNames, vn \in VersionNames, u \in BOOLEAN :
              IncBegin(w, pn, vn, u)
        \/ IncFindPlugin(w)
        \/ IncFindVersion(w)
        \/ IncAdd(w)
        \/ IncCommit(w)

\* concurrent increment requests on the store that holds the example plugin
SpecInc == InitInc /\ [][NextInc]_vars

\* ================================================================ claims

\* a step that handles one request of the given kind
StepOf(kind) == nops' = nops + 1 /\ lastOp'.kind = kind

PluginIds == 1..Len(plugins)
VersionIds == 1..Len(versions)

SameVersionKey(i, j) ==
    /\ versions[i].plugin_id = versions[j].plugin_id
    /\ versions[i].name = versions[j].name
    /\ versions[i].hash = versions[j].hash

\* no two rows of plugin_versions with the same (plugin_id, name, hash)
NoDupVersionRows ==
    \A i, j \in VersionIds : i < j => ~SameVersionKey(i, j)

\* the same, among the versions of the plugins that came from upstream
NoDupSyncedVersions ==
    \A i, j \in VersionIds :
        (i < j /\ plugins[versions[i].plugin_id].upstream_id # None)
            => ~SameVersionKey(i, j)

\* C1: reconciliation is idempotent: a GET /plugins whose pass runs over the
\* same snapshot as the pass of the request just before it (both passes
\* completing) adds no row and changes no field of any row.
C1_Idempotent ==
    [][(/\ lastOp.kind = "get"
        /\ StepOf("get")
        /\ lastOp.snap = lastOp'.snap
        /\ resp.status = 200 /\ resp'.status = 200)
       => (plugins' = plugins /\ versions' = versions)]_vars

\* C2: the visible flag of an existing plugin changes only in set-visibility:
\* every step of any other kind (a reconciliation pass, an increment, a
\* create-plugin, a publish-version) leaves visible as it was on every plugin
\* that existed before the step.
C2_VisibleOnlyByCuration ==
    [][lastOp'.kind # "visibility"
       => \A i \in PluginIds :
             i <= Len(plugins') /\ plugins'[i].visible = plugins[i].visible]_vars

\* C2 witness: a pass over a snapshot whose entry carries "visible": false has
\* just updated a plugin the curator had made visible, and it still is.
C2_Witness ==
    /\ lastOp.kind = "get" /\ lastOp.snap = "update" /\ resp.status = 200
    /\ \E i \in PluginIds :
          plugins[i].upstream_id = Some(7) /\ plugins[i].visible

\* C3: visibility isolation: a plugin is visible only once a set-visibility
\* with visible=true was applied to it (so reconciliation and create-plugin
\* create it hidden), and the list a GET /plugins has just returned holds
\* only plugins whose visible flag is set.
C3_VisibilityIsolation ==
    /\ \A i \in PluginIds : plugins[i].visible => i \in curated
    /\ (lastOp.kind = "get" /\ resp.status = 200)
          => \A k \in 1..Len(resp.rows) :
                /\ plugins[resp.rows[k]].visible
                /\ resp.items[k].visible

\* C3 witness: a GET /plugins has just answered while a plugin created by
\* reconciliation is hidden and another one, made visible by the curator, is
\* listed.
C3_Witness ==
    /\ lastOp.kind = "get" /\ resp.status = 200
    /\ \E i \in PluginIds :
          /\ plugins[i].upstream_id # None
          /\ i \notin curated
          /\ \A k \in 1..Len(resp.rows) : resp.rows[k] # i
    /\ Len(resp.rows) > 0

\* C4: at most one Plugin row for each non-null upstream id.
C4_UniqueUpstreamId ==
    \A i, j \in PluginIds :
        (i < j /\ plugins[i].upstream_id # None)
            => plugins[i].upstream_id # plugins[j].upstream_id

\* C4 witness: a pass over the snapshot that lists upstream id 7 in two
\* entries has completed, and the store holds a row for it.
C4_Witness ==
    /\ lastOp.kind = "get" /\ lastOp.snap = "twice" /\ resp.status = 200
    /\ \E i \in PluginIds : plugins[i].upstream_id = Some(7)

\* C5: reconciliation never duplicates a version: a pass that starts with no
\* two versions of a synced plugin sharing (name, hash) ends so.
C5_SyncNeverDuplicates ==
    [][(StepOf("get") /\ NoDupSyncedVersions) => NoDupSyncedVersions']_vars

\* C6: at most one PluginVersion row per (plugin_id, name, hash); in
\* particular a publish-version step that starts without duplicates ends
\* without duplicates.
C6_PublishNeverDuplicates ==
    [][(StepOf("publish") /\ NoDupVersionRows) => NoDupVersionRows']_vars

\* the plugin and the version an increment request resolves to in the store
\* as it is (names are not changed by an increment)
IncPlugin == QueryPluginByName(Db, lastOp.plugin)
IncVersion ==
    IF IncPlugin = 0 THEN 0 ELSE QueryVersionByName(Db, IncPlugin, lastOp.version)

Counter(isUpdate) == IF isUpdate THEN "updates" ELSE "downloads"

\* C9: a successful increment raises the counter of the selected kind by
\* exactly 1 on exactly one plugin row (of the requested name) and exactly one
\* version row of that plugin (of the requested version name) and changes
\* nothing else; an unsuccessful one changes nothing.
C9_IncrementByOne ==
    [][StepOf("inc") =>
         IF resp'.kind = "empty_object"
         THEN \E p \in PluginIds, v \in VersionIds :
                 LET c == Counter(lastOp'.isUpdate) IN
                 /\ plugins[p].name = Some(lastOp'.plugin)
                 /\ versions[v].name = Some(lastOp'.version)
                 /\ versions[v].plugin_id = p
                 /\ plugins' = [plugins EXCEPT ![p][c] = @ + 1]
                 /\ versions' = [versions EXCEPT ![v][c] = @ + 1]
         ELSE plugins' = plugins /\ versions' = versions]_vars

\* C9 witness: the spec's scenario: after two download increments on
\* Foo/1.0.0 both download counters are 2 and both update counters are 0.
C9_Witness ==
    /\ lastOp.kind = "inc" /\ resp.kind = "empty_object" /\ ~lastOp.isUpdate
    /\ nops = 3
    /\ IncPlugin # 0 /\ IncVersion # 0
    /\ plugins[IncPlugin].downloads = 2 /\ plugins[IncPlugin].updates = 0
    /\ versions[IncVersion].downloads = 2 /\ versions[IncVersion].updates = 0

\* C10: an increment whose plugin name matches no plugin, or whose version
\* name matches no version under the resolved plugin, is answered with a
\* not-found result of one kind: an error object under status 404.
C10_NotFoundIs404 ==
    (lastOp.kind = "inc" /\ (IncPlugin = 0 \/ IncVersion = 0))
        => (resp.status = 404 /\ resp.kind = "error_object")

\* C7: two concurrent reconciliation passes over the same snapshot end
\* without duplicate rows: once every request has finished (done or failed)
\* there is one Plugin row per upstream id and one PluginVersion row per
\* (plugin_id, name, hash).
C7_RaceLeavesNoDuplicates ==
    (\A w \in Workers : sess[w].pc \in {"done", "failed"})
        => (C4_UniqueUpstreamId /\ NoDupVersionRows)

\* C8: counter atomicity: when every worker has completed a successful
\* increment of the same kind on the same plugin and version, both counters
\* of that kind stand exactly NumWorkers above their initial value.
C8_NoLostIncrement ==
    (/\ \A w \in Workers : sess[w].pc = "done" /\ sess[w].resp = IncDone
     /\ \A w1, w2 \in Workers :
           /\ sess[w1].pid = sess[w2].pid
           /\ sess[w1].vid = sess[w2].vid
           /\ sess[w1].isUpdate = sess[w2].isUpdate)
    => \A w \in Workers :
          LET c == Counter(sess[w].isUpdate) IN
          /\ plugins[sess[w].pid][c]
                = ExampleDb.plugins[sess[w].pid][c] + NumWorkers
          /\ versions[sess[w].vid][c]
                = ExampleDb.versions[sess[w].vid][c] + NumWorkers

\* the keys of an upstream entry the update path copies into the plugin row
\* (each is also the name of the column)
OwnedKeys ==
    {"name", "author", "description", "tags", "image_url", "downloads",
     "updates", "created", "updated"}

\* the entries of snapshot n that carry upstream id uid
EntriesFor(n, uid) ==
    SelectSeq(Snapshot(n), LAMBDA e : "id" \in DOMAIN e /\ Some(e.id) = uid)

\* the version items with key (vname, vhash) in the entries of snapshot n for
\* upstream id uid
ItemsFor(n, uid, vname, vhash) ==
    LET es == EntriesFor(n, uid)
    IN  {it \in UNION {{GetVal(es[k], "versions", <<>>)[j] :
                           j \in 1..Len(GetVal(es[k], "versions", <<>>))} :
                       k \in 1..Len(es)} :
            GetOpt(it, "name") = vname /\ GetOpt(it, "hash") = vhash}

\* C11: field ownership on the update path: a pass that completes leaves, on
\* every plugin that was already known, each upstream-owned field that no
\* entry for the plugin carries as it was stored, and leaves the artifact of
\* every version that was already known as it was stored when every item for
\* the version omits artifact or carries null.
C11_FieldOwnership ==
    [][(StepOf("get") /\ resp'.status = 200) =>
         /\ \A i \in PluginIds :
               LET es == EntriesFor(lastOp'.snap, plugins[i].upstream_id) IN
               \A f \in OwnedKeys :
                  (\A k \in 1..Len(es) : f \notin DOMAIN es[k])
                     => plugins'[i][f] = plugins[i][f]
         /\ \A v \in VersionIds :
               LET its == ItemsFor(lastOp'.snap,
                                   plugins[versions[v].plugin_id].upstream_id,
                                   versions[v].name, versions[v].hash) IN
               (\A it \in its : GetNullable(it, "artifact") = None)
                  => versions'[v].artifact = versions[v].artifact]_vars

\* C11 witness: the pass over the snapshot that carries, for plugin 7, only
\* counters and a version with a null artifact has just updated the plugin
\* (its counter is the new one) and the fields and the artifact stored by an
\* earlier pass are still there.
C11_Witness ==
    /\ lastOp.kind = "get" /\ lastOp.snap = "update" /\ resp.status = 200
    /\ \E i \in PluginIds :
          /\ plugins[i].upstream_id = Some(7)
          /\ plugins[i].downloads = 0
          /\ plugins[i].name = Some("Foo")
          /\ plugins[i].description = Some("a plugin")
          /\ plugins[i].tags = Some(JsonDumps(<<"tool">>))
          /\ plugins[i].created = Some("2025-10-15T22:29:47+00:00")
          /\ \E v \in VersionIds :
                /\ versions[v].plugin_id = i
                /\ versions[v].downloads = 0
                /\ versions[v].artifact = Some("foo-1.0.0.zip")

\* version row v is the only row with its (plugin_id, name, hash)
OnlyRowOfItsKey(v) == \A w \in VersionIds : w # v => ~SameVersionKey(v, w)

C13_WriteOnceCache ==
    [][/\ (StepOf("get") /\ lastOp'.fetch # "none") => cacheFile = None
       /\ (StepOf("get") /\ lastOp'.fetch = "ok") => cacheFile' = lastOp'.remote
       /\ (cacheFile # None /\ lastOp'.kind # "rm_cache")
             => cacheFile' = cacheFile]_vars

\* C13 witness: a GET /plugins has just run while the cache file held one
\* document and the remote served another: the remote was not contacted, the
\* pass ran over the cached document and the file still holds it.
C13_Witness ==
    /\ lastOp.kind = "get" /\ lastOp.fetch = "none"
    /\ lastOp.remote # None /\ lastOp.remote # cacheFile
    /\ cacheFile = Some(lastOp.snap)

\* C14: a call while no cache file exists contacts the remote source, and
\* when that fetch fails the call fails (the request with it), and no cache
\* file is written, so that the next call finds no file and fetches again.
C14_FetchFailureRetries ==
    [][(StepOf("get") /\ cacheFile = None) =>
         /\ lastOp'.fetch # "none"
         /\ lastOp'.remote = None =>
               /\ lastOp'.fetch = "failed"
               /\ resp' = ServerError
               /\ cacheFile' = None]_vars

\* C14 witness: a second request in a row has just failed because the remote
\* could not be reached while no cache file existed: it contacted the remote
\* again, and there is still no file.
C14_Witness ==
    /\ lastOp.kind = "get" /\ lastOp.fetch = "failed"
    /\ cacheFile = None /\ resp = ServerError
    /\ nops = 2 /\ plugins = <<>>

\* the store after the step
DbNext == [plugins |-> plugins', versions |-> versions']

\* C15: a GET /plugins that answers with a list has run its reconciliation
\* pass to completion first, and the list is the query and the projection of
\* the store as that pass left it; a GET /plugins whose fetch fails while no
\* cache file exists fails, returns no list, and leaves the store unchanged.
C15_ResponseAfterPass ==
    [][StepOf("get") =>
         /\ lastOp'.fetch = "failed" =>
               /\ resp' = ServerError
               /\ resp'.items = <<>>
               /\ DbNext = Db
         /\ (lastOp'.fetch # "failed" /\ resp'.status = 200) =>
               /\ RunPass(Db, Snapshot(lastOp'.snap)).ok
               /\ DbNext = RunPass(Db, Snapshot(lastOp'.snap)).db
               /\ resp' = ListResponse(DbNext, lastOp'.query)]_vars

\* C15 witness: the list just returned holds plugin 7, made visible by the
\* curator, with the downloads value 0 that this request's own pass (over the
\* snapshot "update") wrote over the 2 of the pass that created it.
C15_Witness ==
    /\ lastOp.kind = "get" /\ lastOp.snap = "update" /\ resp.status = 200
    /\ Len(resp.items) = 1
    /\ resp.items[1].id = 7
    /\ resp.items[1].downloads = 0
    /\ resp.items[1].image_url = Some("foo.png")

\* ADMIN_TOKEN holds a secret
Configured == Truthy(adminToken)

\* C16: authorization outcomes of the Curation API: with no secret configured
\* a privileged call is answered 503; with a secret configured a call whose
\* token header is absent or differs from it is answered 401; in both the
\* handler does not run and the store is unchanged.
C16_AuthOutcomes ==
    [][StepOf("rejected") =>
         /\ resp'.status = IF Configured THEN 401 ELSE 503
         /\ resp'.kind = "error_object"
         /\ plugins' = plugins /\ versions' = versions]_vars

\* a snapshot without its entries that carry no id
WithIds(snap) == SelectSeq(snap, LAMBDA e : "id" \in DOMAIN e)

\* C17: an entry without an upstream id is skipped without error: a pass
\* completes exactly when the pass over the snapshot without its id-less
\* entries would complete, and it leaves the store exactly as that pass
\* would (so no row is created or changed for an id-less entry and every
\* other entry is applied as if the id-less ones were not there).
C17_SkipsEntriesWithoutId ==
    [][(StepOf("get") /\ lastOp'.fetch # "failed") =>
         LET rest == RunPass(Db, WithIds(Snapshot(lastOp'.snap)))
         IN  /\ (resp'.status = 200) = rest.ok
             /\ DbNext = rest.db]_vars

\* C17 witness: the pass over the snapshot that lists an id-less entry "Bar"
\* (with a malformed timestamp) before the entry of plugin 7 has completed:
\* plugin 7 is stored with its version, and no row is named "Bar".
C17_Witness ==
    /\ lastOp.kind = "get" /\ lastOp.snap = "mixed" /\ resp.status = 200
    /\ WithIds(Snapshot("mixed")) # Snapshot("mixed")
    /\ \E i \in PluginIds : plugins[i].upstream_id = Some(7)
    /\ \A i \in PluginIds : plugins[i].name # Some("Bar")
    /\ \A v \in VersionIds : plugins[versions[v].plugin_id].upstream_id = Some(7)

\* plugin row i was created by the curator: it has no upstream id
IsLocal(i) == plugins[i].upstream_id = None

\* C18: locally curated plugins are outside reconciliation: a GET /plugins
\* step, whatever its snapshot, changes no field of a plugin without upstream
\* id, changes no version of such a plugin, adds none and removes none.
C18_LocalPluginsUntouched ==
    [][StepOf("get") =>
         /\ Len(plugins') >= Len(plugins) /\ Len(versions') >= Len(versions)
         /\ \A i \in PluginIds : IsLocal(i) => plugins'[i] = plugins[i]
         /\ \A v \in VersionIds :
               IsLocal(versions[v].plugin_id) => versions'[v] = versions[v]
         /\ \A v \in (Len(versions) + 1)..Len(versions') :
               versions'[v].plugin_id \in PluginIds
                  => ~IsLocal(versions'[v].plugin_id)]_vars

\* C18 witness: the curator created a plugin "Foo" and published a version of
\* it, and a pass over a snapshot that lists an upstream plugin of the same
\* name has completed: the store holds both plugins, and the local one has
\* the one version the curator published.
C18_Witness ==
    /\ lastOp.kind = "get" /\ resp.status = 200
    /\ \E i, j \in PluginIds :
          /\ IsLocal(i) /\ plugins[i].name = Some("Foo")
          /\ ~IsLocal(j) /\ plugins[j].name = Some("Foo")
          /\ Cardinality({v \in VersionIds : versions[v].plugin_id = i}) = 1
          /\ \E v \in VersionIds : versions[v].plugin_id = j

\* C19: the identifier in every projection a GET /plugins has just returned
\* is the plugin's upstream id whenever the plugin has one (0 included), and
\* the local id only when it has none.
C19_ProjectionIdentifier ==
    (lastOp.kind = "get" /\ resp.status = 200) =>
       \A k \in 1..Len(resp.rows) :
          resp.items[k].id =
             IF plugins[resp.rows[k]].upstream_id # None
             THEN plugins[resp.rows[k]].upstream_id[1]
             ELSE resp.rows[k]

\* every downloads and updates counter of the store is at least 0
CountersNonNegative ==
    /\ \A i \in PluginIds : plugins[i].downloads >= 0 /\ plugins[i].updates >= 0
    /\ \A v \in VersionIds :
          versions[v].downloads >= 0 /\ versions[v].updates >= 0

\* a step of the counter increment or of the Curation API
IncOrCurationStep ==
    \/ StepOf("inc") \/ StepOf("create") \/ StepOf("publish")
    \/ StepOf("visibility")

\* no counter of a row that exists before the step is lower after it
NoCounterLowered ==
    /\ \A i \in PluginIds :
          /\ plugins'[i].downloads >= plugins[i].downloads
          /\ plugins'[i].updates >= plugins[i].updates
    /\ \A v \in VersionIds :
          /\ versions'[v].downloads >= versions[v].downloads
          /\ versions'[v].updates >= versions[v].updates

\* C20: in every reachable state every plugin and version counter is at
\* least 0, and no step of the counter increment or of the Curation API
\* lowers a counter.
C20_CountersNonNegative ==
    /\ []CountersNonNegative
    /\ [][IncOrCurationStep => NoCounterLowered]_vars

\* the keys among created / updated under which JSON object e carries a
\* string that does not parse
BadDateKeys(e) ==
    {k \in {"created", "updated"} \cap DOMAIN e : ~ParseIso8601(Some(e[k])).ok}

\* JSON object e without those keys
WithoutBadDates(e) == [k \in DOMAIN e \ BadDateKeys(e) |-> e[k]]

\* a snapshot whose entries and version items have lost their unparseable
\* timestamps: what the pass would see if such a string counted as absent
Sanitized(snap) ==
    [i \in 1..Len(snap) |->
       LET e == WithoutBadDates(snap[i])
       IN  IF "versions" \in DOMAIN e
           THEN [e EXCEPT !.versions =
                   [j \in 1..Len(@) |-> WithoutBadDates(@[j])]]
           ELSE e]

\* C21: timestamp parsing never aborts a sync: a pass completes exactly when
\* the pass over the same snapshot without its unparseable created / updated
\* strings would, and it commits what that pass would (the field as stored
\* on the update path, null on the create path).
C21_BadTimestampTolerated ==
    [][(StepOf("get") /\ lastOp'.fetch # "failed") =>
         LET rest == RunPass(Db, Sanitized(Snapshot(lastOp'.snap)))
         IN  /\ (resp'.status = 200) = rest.ok
             /\ DbNext = rest.db]_vars

CounterKeys == {"downloads", "updates"}

\* the values the JSON objects of the set or sequence js carry under key c
RECURSIVE ValuesIn(_, _)
ValuesIn(js, c) ==
    IF js = {} THEN {}
    ELSE LET j == CHOOSE x \in js : TRUE
         IN  (IF c \in DOMAIN j THEN {j[c]} ELSE {}) \cup ValuesIn(js \ {j}, c)

\* the entries of snapshot n for upstream id uid, as a set
EntrySetFor(n, uid) ==
    {EntriesFor(n, uid)[k] : k \in 1..Len(EntriesFor(n, uid))}

ProcessedEarlier(w) == sess[w].pc \in {"lookup", "apply"} /\ sess[w].i > 1

\* C23: a reconciliation pass is applied all-or-nothing: the committed store
\* (what every other session and every later request reads) changes only in
\* the commit of a pass that has applied every entry of its snapshot, and
\* then to that pass's whole result; a step in which a pass fails leaves the
\* committed store as it was.
C23_AllOrNothing ==
    [][/\ \A w \in Workers :
             (sess[w].pc # "failed" /\ sess'[w].pc = "failed") => DbNext = Db
       /\ DbNext # Db =>
             \E w \in Workers :
                /\ sess[w].pc = "commit" /\ sess'[w].pc = "done"
                /\ sess[w].i > Len(Snapshot(sess[w].snap))
                /\ DbNext = Commit(Db, sess[w].s)]_vars

\* C23 witness: a pass over the snapshot whose second entry carries an
\* unparseable timestamp has failed at that entry, after its first entry
\* was inserted and flushed in its session, and the committed store holds
\* nothing of it.
C23_Witness ==
    \E w \in Workers :
       /\ sess[w].pc = "failed" /\ sess[w].snap = "baddate"
       /\ sess[w].i = 3
       /\ NumRows(Db, sess[w].s) > Len(plugins)
       /\ plugins = <<>> /\ versions = <<>>

\* the plugin rows that carry the name
NamedPlugins(pname) == {i \in PluginIds : plugins[i].name = Some(pname)}

\* the version rows under plugin row p that carry the name
NamedVersions(p, vname) ==
    {v \in VersionIds :
        versions[v].plugin_id = p /\ versions[v].name = Some(vname)}

\* C24: name-based resolution is first match wins: an increment whose plugin
\* name several rows carry touches no plugin row but the first of them and no
\* version that is not under it; when no version of the requested name is
\* under that first row the handler reports the version as not found and
\* nothing changes, even if another plugin of the name has such a version;
\* otherwise the counter of the first row is the one raised.
C24_FirstMatchWins ==
    [][(StepOf("inc") /\ NamedPlugins(lastOp'.plugin) # {}) =>
         LET first == Min(NamedPlugins(lastOp'.plugin))
             c     == Counter(lastOp'.isUpdate)
         IN  /\ \A i \in PluginIds : i # first => plugins'[i] = plugins[i]
             /\ \A v \in VersionIds :
                   versions[v].plugin_id # first => versions'[v] = versions[v]
             /\ IF NamedVersions(first, lastOp'.version) = {}
                THEN resp' = VersionNotFound /\ DbNext = Db
                ELSE /\ resp' = IncDone
                     /\ plugins'[first][c] = plugins[first][c] + 1]_vars

\* C24 witness: two plugins are named alike, the requested version exists
\* only under the second one, and the increment has just reported the
\* version as not found; no counter of the second plugin was raised.
C24_Witness ==
    /\ lastOp.kind = "inc" /\ resp = VersionNotFound
    /\ \E i, j \in NamedPlugins(lastOp.plugin) :
          /\ i < j
          /\ i = Min(NamedPlugins(lastOp.plugin))
          /\ NamedVersions(i, lastOp.version) = {}
          /\ \E v \in NamedVersions(j, lastOp.version) :
                versions[v].downloads = 0 /\ versions[v].updates = 0
          /\ plugins[j].downloads = 0 /\ plugins[j].updates = 0

====
